---- MODULE Spec2Model ----
(***************************************************************************)
(* The daily puzzle scheduler of server/app.py: select_daily_puzzle reads  *)
(* the range library and the game history from two JSON files, returns     *)
(* today's puzzle and records it in the history file; get_daily_puzzle is  *)
(* the HTTP endpoint in front of it.                                       *)
(***************************************************************************)
EXTENDS Integers, Sequences, FiniteSets, TLC

VARIABLES
    libFile,    \* data/rangeLibrary.json
    histFile,   \* data/gameHistory.json
    today,      \* the day the system clock shows, as a day number
    call,       \* what the last get_daily_puzzle request did
    resp,       \* the HTTP response of the last request
    seen,       \* from a first run on: what the requests on the first LibSize
                \* distinct dates returned
    procs       \* the requests in progress, when their steps interleave

vars == <<libFile, histFile, today, call, resp, seen, procs>>

----------------------------------------------------------------------------
(* Bounds of the model *)

\* number of puzzle ids that exist
MaxLib == 3
\* number of calendar days the clock can show
MaxDate == 4
\* longest history file present before the first request (SpecAny)
MaxHist0 == 1

Ids == 1..MaxLib
Days == 1..MaxDate

----------------------------------------------------------------------------
(* Python values *)

PyNone == [kind |-> "None"]
PyInt(n) == [kind |-> "int", val |-> n]
PyStr(s) == [kind |-> "str", val |-> s]
PyList(s) == [kind |-> "list", items |-> s]
PyTuple(s) == [kind |-> "tuple", items |-> s]
\* a dict is a record of its keys
PyDict(r) == [kind |-> "dict", val |-> r]

\* an exception that leaves the function instead of a value
Raise(exc) == [kind |-> "raise", exc |-> exc]

\* a puzzle record of the library, {"id": i, ...}
Puzzle(i) == PyDict([id |-> i])
\* a history entry, {"date": d, "puzzle_id": i}
Entry(d, i) == PyDict([date |-> d, puzzle_id |-> i])

\* Python truth value of a list or None, as `not x` uses it
Falsy(v) == v.kind = "None" \/ (v.kind = "list" /\ v.items = <<>>)

\* `key in v` for a string key: a key of a dict, an element of a tuple or
\* list; None is not iterable (TypeError)
PyIn(key, v) ==
    CASE v.kind = "dict" -> key \in DOMAIN v.val
      [] v.kind \in {"tuple", "list"} ->
            \E k \in 1..Len(v.items) :
                v.items[k].kind = "str" /\ v.items[k].val = key
      [] OTHER -> FALSE

Raises(key, v) == v.kind = "None"

----------------------------------------------------------------------------
(* The clock *)

\* the calendar date of day number n, counted from 2024-12-30
DateOf(n) ==
    IF n <= 2 THEN [year |-> 2024, month |-> 12, day |-> 29 + n]
              ELSE [year |-> 2025, month |-> 1, day |-> n - 2]

\* a format without the day, "%Y%m"
strftime_Ym(d) == d.year * 100 + d.month

\* strftime("%Y%m%d"): eight digits, read here as a number
strftime(d) == d.year * 10000 + d.month * 100 + d.day

today_id_of(n) == strftime(DateOf(n))

----------------------------------------------------------------------------
(* Files *)

Missing == [st |-> "missing", data |-> <<>>]
Malformed == [st |-> "malformed", data |-> <<>>]
\* a file holding the JSON encoding of a list
JsonFile(s) == [st |-> "json", data |-> s]
\* a file of no bytes
Truncated == [st |-> "empty", data |-> <<>>]
\* a file holding any other bytes, one character each
Raw(bytes) == [st |-> "raw", bytes |-> bytes]

Range(s) == {s[i] : i \in 1..Len(s)}

\* the decimal digits
DigitChars == <<"0", "1", "2", "3", "4", "5", "6", "7", "8", "9">>

\* str(v) of a number that is not negative
RECURSIVE Dec(_)
Dec(v) ==
    IF v < 10 THEN <<DigitChars[v + 1]>>
    ELSE Dec(v \div 10) \o <<DigitChars[(v % 10) + 1]>>

\* the number a string of digits reads as
RECURSIVE Num(_)
Num(s) ==
    IF s = <<>> THEN 0
    ELSE Num(SubSeq(s, 1, Len(s) - 1)) * 10
         + (CHOOSE d \in 0..9 : DigitChars[d + 1] = s[Len(s)])

\* indent=4 of the json.dump call
IndentWidth == 4

\* the spaces in front of a line at nesting depth n
Indent(n) == [i \in 1..(n * IndentWidth) |-> " "]

KeyDate == <<"\"", "d", "a", "t", "e", "\"">>
KeyPuzzleId == <<"\"", "p", "u", "z", "z", "l", "e", "_", "i", "d", "\"">>

\* what stands in front of the digits of the date, and of the puzzle id
BeforeDate == Indent(1) \o <<"{", "\n">> \o Indent(2) \o KeyDate \o <<":", " ", "\"">>
BeforeId == <<"\"", ",", "\n">> \o Indent(2) \o KeyPuzzleId \o <<":", " ">>

\* the text of one history entry under json.dump(..., indent=4); the date is
\* a string of digits, the puzzle id a number
EntryText(e) ==
    BeforeDate \o Dec(e.val.date) \o BeforeId \o Dec(e.val.puzzle_id)
        \o <<"\n">> \o Indent(1) \o <<"}">>

RECURSIVE JoinEntries(_)
JoinEntries(items) ==
    IF Len(items) = 1 THEN EntryText(items[1])
    ELSE EntryText(Head(items)) \o <<",", "\n">> \o JoinEntries(Tail(items))

\* json.dump(data, f, indent=4) of a list of history entries: the text written
Text(items) ==
    IF items = <<>> THEN <<"[", "]">>
    ELSE <<"[", "\n">> \o JoinEntries(items) \o <<"\n", "]">>

\* the number of digits of str(v)
RECURSIVE DecLen(_)
DecLen(v) == IF v < 10 THEN 1 ELSE 1 + DecLen(v \div 10)

\* the length of Text(items): two brackets; per entry its fixed part, its
\* digits, and a comma or the last line end, with the line end after it
RECURSIVE TextLen(_)
TextLen(items) ==
    IF items = <<>> THEN 2
    ELSE LET e == items[Len(items)]
         IN TextLen(SubSeq(items, 1, Len(items) - 1))
            + Len(BeforeDate) + DecLen(e.val.date) + Len(BeforeId)
            + DecLen(e.val.puzzle_id) + 2 + IndentWidth + 2

\* text without the whitespace at its end, which json.load ignores
RECURSIVE Strip(_)
Strip(bytes) ==
    IF bytes # <<>> /\ bytes[Len(bytes)] \in {" ", "\n"}
    THEN Strip(SubSeq(bytes, 1, Len(bytes) - 1))
    ELSE bytes

\* an entry with an eight-digit date and a one-digit id, a comma and a line end
EntryWidth == Len(EntryText(Entry(strftime(DateOf(1)), 1))) + 2
DateWidth == Len(Dec(strftime(DateOf(1))))

\* json.load of these bytes: the list they are the text of, if any. The fields
\* are read off from where the text of a list has them, and the bytes decode
\* when they are the text of the list so read.
Decode(bytes) ==
    LET body == Strip(bytes)
        k == IF Len(body) <= 2 THEN 0 ELSE (Len(body) - 2) \div EntryWidth
        dateAt(j) == 2 + (j - 1) * EntryWidth + Len(BeforeDate)
        idAt(j) == dateAt(j) + DateWidth + Len(BeforeId)
        digits(from, w) == SubSeq(body, from + 1, from + w)
        isDigits(s) == \A i \in 1..Len(s) : s[i] \in Range(DigitChars)
        fits == \A j \in 1..k :
                    /\ idAt(j) + 1 <= Len(body)
                    /\ isDigits(digits(dateAt(j), DateWidth))
                    /\ isDigits(digits(idAt(j), 1))
        items == [j \in 1..k |-> Entry(Num(digits(dateAt(j), DateWidth)),
                                       Num(digits(idAt(j), 1)))]
    IN IF body # <<>> /\ body[Len(body)] = "]" /\ fits /\ body = Text(items)
       THEN [ok |-> TRUE, items |-> items]
       ELSE [ok |-> FALSE, items |-> <<>>]

\* a loader that answers None for a history file it cannot decode
load_json_none(file, isHistory) ==
    CASE file.st = "json" -> PyList(file.data)
      [] file.st = "missing" -> IF isHistory THEN PyList(<<>>) ELSE PyNone
      [] file.st = "raw" ->
            LET d == Decode(file.bytes) IN IF d.ok THEN PyList(d.items) ELSE PyNone
      [] OTHER -> PyNone

\* load_json on the library path (isHistory = FALSE) or the history path
load_json(file, isHistory) ==
    CASE file.st = "json" -> PyList(file.data)
      [] file.st = "missing" -> IF isHistory THEN PyList(<<>>) ELSE PyNone
      [] file.st = "raw" ->
            LET d == Decode(file.bytes) IN IF d.ok THEN PyList(d.items) ELSE PyList(<<>>)
      [] OTHER -> PyList(<<>>)

\* open(file_path, 'w') (line 37): the file is cut to no bytes
open_w(file) == Truncated

\* the bytes of a file that a writer finds under its handle; every writer
\* cuts the file first, so what it finds was written after that
Bytes(file) ==
    CASE file.st = "json" -> Text(file.data)
      [] file.st = "raw" -> file.bytes
      [] OTHER -> <<>>

\* the number of those bytes
Size(file) ==
    CASE file.st = "json" -> TextLen(file.data)
      [] file.st = "raw" -> Len(file.bytes)
      [] OTHER -> 0

\* the file that holds these bytes
FileOf(bytes) ==
    LET d == Decode(bytes)
    IN IF bytes = <<>> THEN Truncated
       ELSE IF Strip(bytes) = bytes /\ d.ok THEN JsonFile(d.items)
       ELSE Raw(bytes)

\* of the text of the list, the first n characters are written from the start
\* of the file: what the file held beyond them stays. Where nothing stays, the
\* file holds the list or, short of its closing bracket, an undecodable part.
\* Where something stays behind the whole text, the bytes are not a text.
Write(file, items, n) ==
    IF Size(file) <= n
    THEN IF n = TextLen(items) THEN JsonFile(items)
         ELSE IF n = 0 THEN Truncated
         ELSE Raw(SubSeq(Text(items), 1, n))
    ELSE IF n = TextLen(items)
    THEN Raw(Text(items) \o SubSeq(Bytes(file), n + 1, Size(file)))
    ELSE FileOf(SubSeq(Text(items), 1, n) \o SubSeq(Bytes(file), n + 1, Size(file)))

\* json.dump and the close of the file (line 38): the whole text of data is
\* written from the start of the file. Over a longer content that another
\* writer put there meanwhile, the end of that content stays behind the text.
json_dump(file, data) ==
    IF file.st = "empty" THEN JsonFile(data.items)
    ELSE Write(file, data.items, TextLen(data.items))

\* save_json: the file holds the dumped list afterwards
save_json(data) == JsonFile(data.items)

----------------------------------------------------------------------------
(* select_daily_puzzle *)

\* the error result of line 52: a tuple of a dict and 500
LibraryUnavailable ==
    PyTuple(<<PyDict([error |-> "Range library is empty or missing."]), PyInt(500)>>)

\* SelectSeq(s, Test) with the test inlined: the items of s that satisfy P
RECURSIVE Filter(_, _)
Filter(s, keep) ==
    IF s = <<>> THEN <<>>
    ELSE IF keep[Head(s)] THEN <<Head(s)>> \o Filter(Tail(s), keep)
         ELSE Filter(Tail(s), keep)

\* the positions of the history entries the scan of lines 55-56 never matches
today_entries_never(history, today_id) == {}

\* the positions of the history entries dated today_id (the scan of lines 55-56)
today_entries(history, today_id) ==
    {k \in 1..Len(history.items) : history.items[k].val.date = today_id}

\* a lookup that ignores the id and yields the first record
lookup_first(range_library, pid) == range_library.items[1]

\* a lookup that falls back to the first record when no id matches
lookup_default(range_library, pid) ==
    LET hits == {k \in 1..Len(range_library.items) :
                    range_library.items[k].val.id = pid}
    IN IF hits = {} THEN range_library.items[1]
       ELSE range_library.items[CHOOSE k \in hits : \A j \in hits : k <= j]

\* next((p for p in range_library if p['id'] == pid), None)
lookup(range_library, pid) ==
    LET hits == {k \in 1..Len(range_library.items) :
                    range_library.items[k].val.id = pid}
    IN IF hits = {} THEN PyNone
       ELSE range_library.items[CHOOSE k \in hits : \A j \in hits : k <= j]

\* used ids taken from the most recent entry only
used_ids_last(history) ==
    IF history.items = <<>> THEN {}
    ELSE {history.items[Len(history.items)].val.puzzle_id}

\* used_ids = [entry["puzzle_id"] for entry in history]
used_ids(history) ==
    {history.items[k].val.puzzle_id : k \in 1..Len(history.items)}

\* a pool that is the whole library, used or not
available_puzzles_all(range_library, used) == range_library.items

\* available_puzzles = [p for p in range_library if p['id'] not in used_ids]
available_puzzles(range_library, used) ==
    Filter(range_library.items,
           [p \in {range_library.items[k] : k \in 1..Len(range_library.items)}
               |-> p.val.id \notin used])

\* a reset that drops only the oldest entry
history_clear_oldest(history) ==
    PyList(IF history.items = <<>> THEN <<>> ELSE Tail(history.items))

\* history.clear()
history_clear(history) == PyList(<<>>)

\* an entry filed under a date that is not the one the scan looks for
new_entry_misdated(today_id, selected_puzzle) ==
    Entry(today_id + 1, selected_puzzle.val.id)

\* an entry whose puzzle id is off by one
new_entry_offset(today_id, selected_puzzle) ==
    Entry(today_id, selected_puzzle.val.id + 1)

\* new_entry = {"date": today_id, "puzzle_id": selected_puzzle['id']}
new_entry(today_id, selected_puzzle) ==
    Entry(today_id, selected_puzzle.val.id)

\* What one call does: the value returned, the history file left behind, the
\* number of save_json calls and of recursive calls made.
Outcome(ret, hist, writes, retries) ==
    [ret |-> ret, hist |-> hist, writes |-> writes, retries |-> retries]

\* a library check that rewrites the history file before it gives up
fail_library_rewrites(hist) ==
    Outcome(LibraryUnavailable, save_json(load_json(hist, TRUE)), 1, 0)

\* lines 51-52: the library is empty or missing
fail_library(hist) == Outcome(LibraryUnavailable, hist, 0, 0)

\* lines 55-58: today's entry is in the history; entry is the first one found
return_recorded(range_library, entry, hist) ==
    Outcome(lookup(range_library, entry.val.puzzle_id), hist, 0, 0)

\* a selection that files the new entry in front of the older ones
select_and_record_front(range_library, history, today_id, selected_puzzle) ==
    Outcome(selected_puzzle,
            save_json(PyList(<<new_entry(today_id, selected_puzzle)>> \o history.items)),
            1, 0)

\* lines 73-84: selected_puzzle is what random.choice picked
select_and_record(range_library, history, today_id, selected_puzzle) ==
    Outcome(selected_puzzle,
            save_json(PyList(Append(history.items,
                        new_entry(today_id, selected_puzzle)))),
            1, 0)

\* The outcomes of one call; random.choice is the choice of an outcome.
RECURSIVE select_daily_puzzle(_, _, _)
select_daily_puzzle(lib, hist, today_id) ==
    LET range_library == load_json(lib, FALSE)
        history == load_json(hist, TRUE)
    IN
    IF Falsy(range_library)
    THEN {fail_library(hist)}
    ELSE IF history.kind = "None"
    THEN \* `for entry in history`: None is not iterable
         {Outcome(Raise("TypeError"), hist, 0, 0)}
    ELSE IF today_entries(history, today_id) # {}
    THEN LET es == today_entries(history, today_id)
             entry == history.items[CHOOSE k \in es : \A j \in es : k <= j]
         IN {return_recorded(range_library, entry, hist)}
    ELSE LET avail == available_puzzles(range_library, used_ids(history))
         IN IF avail = <<>>
            THEN \* history.clear(); save_json; return select_daily_puzzle()
                 {[o EXCEPT !.writes = @ + 1, !.retries = @ + 1] :
                    o \in select_daily_puzzle(lib, save_json(history_clear(history)),
                                              today_id)}
            ELSE {select_and_record(range_library, history, today_id, avail[k]) :
                    k \in 1..Len(avail)}

----------------------------------------------------------------------------
(* get_daily_puzzle *)

\* Flask's answer to an exception that escapes the view function
InternalServerError == [status |-> 500, body |-> PyStr("Internal Server Error")]

\* the response to the return value of select_daily_puzzle
get_daily_puzzle(puzzle_data) ==
    IF puzzle_data.kind = "raise" \/ Raises("error", puzzle_data)
    THEN InternalServerError
    ELSE IF PyIn("error", puzzle_data)
         THEN [status |-> 500, body |-> puzzle_data]
         ELSE [status |-> 200, body |-> puzzle_data]

----------------------------------------------------------------------------
(* The state machine *)

NoCall ==
    [done |-> FALSE, day |-> 0, ret |-> PyNone, pre |-> Missing,
     writes |-> 0, retries |-> 0, fresh |-> FALSE,
     again |-> FALSE, prevRet |-> PyNone, prevWrites |-> 0]

NoResp == [status |-> 0, body |-> PyNone]

\* the two requests whose steps interleave
Procs == {"a", "b"}

\* a request that has not started: its position, its local history list, whether
\* the save it is making is the reset's, the record it selected, the recursive
\* calls made, the value returned, the history the file held when it opened
\* it for writing, and the I/O failure that ended it
Idle ==
    [pc |-> "idle", history |-> <<>>, reset |-> FALSE, sel |-> PyNone,
     retries |-> 0, ret |-> PyNone, old |-> <<>>, io |-> "none"]

\* lists of puzzle records with pairwise distinct ids, of length n
RECURSIVE DistinctSeqs(_, _)
DistinctSeqs(S, n) ==
    IF n = 0 THEN {<<>>}
    ELSE {<<x>> \o s : x \in S, s \in DistinctSeqs(S, n - 1)} \cap
         {s \in [1..n -> S] : \A a, b \in 1..n : a # b => s[a] # s[b]}

Libraries ==
    UNION {{[k \in 1..n |-> Puzzle(s[k])] : s \in DistinctSeqs(Ids, n)} : n \in 0..MaxLib}

LibFiles == {Missing, Malformed} \cup {JsonFile(l) : l \in Libraries}

\* history files as earlier days left them: at most MaxHist0 entries, one per
\* date, in the order of their dates, none dated after day n
Histories0(n) ==
    UNION {{[k \in 1..m |-> Entry(today_id_of(ds[k]), is[k])] :
                ds \in {x \in DistinctSeqs(1..n, m) :
                            \A a, b \in 1..m : a < b => x[a] < x[b]},
                is \in [1..m -> Ids]} : m \in 0..MaxHist0}

HistFiles0(n) == {Missing, Malformed} \cup {JsonFile(h) : h \in Histories0(n)}

\* first run: no history yet
Init ==
    /\ libFile \in LibFiles
    /\ histFile \in {Missing, JsonFile(<<>>)}
    /\ today \in Days
    /\ call = NoCall
    /\ resp = NoResp
    /\ seen = [on |-> TRUE, log |-> <<>>]
    /\ procs = [p \in Procs |-> Idle]

\* a process started over files left by earlier runs and deployments
InitAny ==
    /\ libFile \in LibFiles
    /\ today \in Days
    /\ histFile \in HistFiles0(today)
    /\ call = NoCall
    /\ resp = NoResp
    /\ seen = [on |-> FALSE, log |-> <<>>]
    /\ procs = [p \in Procs |-> Idle]

\* the number of records of the library file, 0 when it cannot be read
LibSize == Len(libFile.data)

\* the request being served follows a request made on the same date
Again == call.done /\ call.day = today

\* GET /api/daily-puzzle, served by a process that has just started
\* (restarted = TRUE) or that has served requests before
Serve(restarted) ==
    \E o \in select_daily_puzzle(libFile, histFile, today_id_of(today)) :
        /\ histFile' = o.hist
        /\ call' = [done |-> TRUE, day |-> today, ret |-> o.ret,
                    pre |-> histFile, writes |-> o.writes, retries |-> o.retries,
                    fresh |-> restarted,
                    again |-> Again,
                    prevRet |-> IF Again THEN call.ret ELSE PyNone,
                    prevWrites |-> IF Again THEN call.writes ELSE 0]
        /\ resp' = get_daily_puzzle(o.ret)
        /\ seen' = IF \/ ~seen.on
                      \/ Len(seen.log) >= LibSize
                      \/ \E k \in 1..Len(seen.log) : seen.log[k].day = today
                   THEN seen
                   ELSE [seen EXCEPT !.log = Append(@, [day |-> today, ret |-> o.ret])]
        /\ UNCHANGED <<libFile, today, procs>>

Request == Serve(FALSE)

\* the server process is restarted (it keeps nothing in memory) and serves
\* its first request
RestartAndRequest == Serve(TRUE)

\* midnight passes, once or several times, with no request in between
ClockChange ==
    /\ \E d \in Days : d > today /\ today' = d
    /\ UNCHANGED <<libFile, histFile, call, resp, seen, procs>>

Next == Request \/ RestartAndRequest \/ ClockChange

Spec == Init /\ [][Next]_vars

SpecAny == InitAny /\ [][Next]_vars

----------------------------------------------------------------------------
(* Requests whose steps interleave; I/O that fails *)

\* lines 45-74 and 77-81 of one call: load the files, then return, or prepare
\* the list to save (the cleared list, or the list with today's entry)
after_load(pr, lib, hist, today_id) ==
    LET range_library == load_json(lib, FALSE)
        history == load_json(hist, TRUE)
    IN
    IF Falsy(range_library)
    THEN {[pr EXCEPT !.pc = "done", !.ret = LibraryUnavailable]}
    ELSE IF history.kind = "None"
    THEN {[pr EXCEPT !.pc = "done", !.ret = Raise("TypeError")]}
    ELSE IF today_entries(history, today_id) # {}
    THEN LET es == today_entries(history, today_id)
             entry == history.items[CHOOSE k \in es : \A j \in es : k <= j]
         IN {[pr EXCEPT !.pc = "done",
                        !.ret = lookup(range_library, entry.val.puzzle_id)]}
    ELSE LET avail == available_puzzles(range_library, used_ids(history))
         IN IF avail = <<>>
            THEN {[pr EXCEPT !.pc = "open", !.reset = TRUE,
                             !.history = history_clear(history).items]}
            ELSE {[pr EXCEPT !.pc = "open", !.reset = FALSE, !.sel = avail[k],
                             !.history = Append(history.items,
                                                new_entry(today_id, avail[k]))] :
                    k \in 1..Len(avail)}

\* a request starts, or starts over after the reset, and runs up to its
\* return or to its save_json
Load(p) ==
    /\ procs[p].pc \in {"idle", "load"}
    /\ \E pr \in after_load(procs[p], libFile, histFile, today_id_of(today)) :
          procs' = [procs EXCEPT ![p] = pr]
    /\ UNCHANGED <<libFile, histFile, today, call, resp, seen>>

\* save_json, line 37
Open(p) ==
    /\ procs[p].pc = "open"
    /\ histFile' = open_w(histFile)
    /\ procs' = [procs EXCEPT ![p].pc = "dump",
                              ![p].old = load_json(histFile, TRUE).items]
    /\ UNCHANGED <<libFile, today, call, resp, seen>>

\* save_json, line 38; then the recursive call (line 71) or the return (line 84)
Dump(p) ==
    /\ procs[p].pc = "dump"
    /\ histFile' = json_dump(histFile, PyList(procs[p].history))
    /\ LET pr == procs[p]
       IN procs' = [procs EXCEPT ![p] =
            IF pr.reset
            THEN [pr EXCEPT !.pc = "load", !.retries = pr.retries + 1]
            ELSE [pr EXCEPT !.pc = "done", !.ret = pr.sel]]
    /\ UNCHANGED <<libFile, today, call, resp, seen>>

\* open() raises OSError: the file is as it was
OpenFails(p) ==
    /\ procs[p].pc = "open"
    /\ procs' = [procs EXCEPT ![p].pc = "done", ![p].io = "open",
                              ![p].ret = Raise("OSError")]
    /\ UNCHANGED <<libFile, histFile, today, call, resp, seen>>

\* the write of line 38 raises OSError (disk full, quota, file size limit)
\* after some of the text, or none of it, is in the file
DumpFails(p) ==
    /\ procs[p].pc = "dump"
    /\ \E n \in 0..(TextLen(procs[p].history) - 1) :
          histFile' = Write(histFile, procs[p].history, n)
    /\ procs' = [procs EXCEPT ![p].pc = "done", ![p].io = "dump",
                              ![p].ret = Raise("OSError")]
    /\ UNCHANGED <<libFile, today, call, resp, seen>>

\* the process is killed between the cut of the file and the end of the write
CrashInSave(p) ==
    /\ procs[p].pc = "dump"
    /\ procs' = [procs EXCEPT ![p].pc = "dead", ![p].io = "crash"]
    /\ UNCHANGED <<libFile, histFile, today, call, resp, seen>>

\* two requests arrive on a day for which the History has no entry
InitConc ==
    /\ libFile \in LibFiles
    /\ today \in Days
    /\ histFile \in HistFiles0(today - 1)
    /\ call = NoCall
    /\ resp = NoResp
    /\ seen = [on |-> FALSE, log |-> <<>>]
    /\ procs = [p \in Procs |-> Idle]

\* the same on the second day, when the History can hold an entry of the
\* first, with a library that decodes and is not empty: no request reaches
\* save_json otherwise (line 52)
InitFault ==
    /\ libFile \in {JsonFile([i \in 1..n |-> Puzzle(i)]) : n \in 1..MaxLib}
    /\ today = 2
    /\ histFile \in HistFiles0(today - 1)
    /\ call = NoCall
    /\ resp = NoResp
    /\ seen = [on |-> FALSE, log |-> <<>>]
    /\ procs = [p \in Procs |-> Idle]

NextConc == \E p \in Procs : Load(p) \/ Open(p) \/ Dump(p)

NextFault ==
    \E p \in Procs :
        Load(p) \/ Open(p) \/ Dump(p) \/ OpenFails(p) \/ DumpFails(p) \/ CrashInSave(p)

SpecConc == InitConc /\ [][NextConc]_vars

SpecFault == InitFault /\ [][NextFault]_vars

----------------------------------------------------------------------------
(* What the properties speak of *)

\* the library is present, well-formed and non-empty
LibOK == ~Falsy(load_json(libFile, FALSE))

LibRecords == {libFile.data[k] : k \in 1..Len(libFile.data)}

LibIds == {p.val.id : p \in LibRecords}

\* the entries of the persisted History now, and before the last call
Hist == load_json(histFile, TRUE).items

PreHist == load_json(call.pre, TRUE).items

DatesOf(h) == {h[k].val.date : k \in 1..Len(h)}

\* the last call found an entry for its date that names no library record
Fault ==
    /\ call.done
    /\ LibOK
    /\ \E k \in 1..Len(PreHist) :
          /\ PreHist[k].val.date = today_id_of(call.day)
          /\ PreHist[k].val.puzzle_id \notin LibIds

\* before the last call the History used every library id, on as many
\* distinct dates, none of them the date of the call
PreExhausted ==
    /\ call.done
    /\ LibOK
    /\ Len(PreHist) = LibSize
    /\ Cardinality(DatesOf(PreHist)) = LibSize
    /\ {PreHist[k].val.puzzle_id : k \in 1..Len(PreHist)} = LibIds
    /\ today_id_of(call.day) \notin DatesOf(PreHist)

----------------------------------------------------------------------------
(* Properties *)

\* C1. Idempotence: a call that follows a call made on the same date returns
\* the same puzzle record as that call, also when that call selected afresh
\* or reset the History.
C1_Idempotence ==
    (call.again /\ LibOK) => call.ret = call.prevRet

\* two calls on one date, the first of which reset the History and selected
C1_Witness ==
    /\ call.again
    /\ LibOK
    /\ call.prevWrites = 2
    /\ call.ret \in LibRecords

\* C2. No repeat until exhaustion: from an empty History, the calls on the
\* first N distinct dates return N pairwise distinct puzzle ids that cover
\* the Library of N records exactly once.
C2_NoRepeatUntilExhaustion ==
    (LibOK /\ Len(seen.log) = LibSize) =>
        /\ {seen.log[k].ret : k \in 1..Len(seen.log)} = LibRecords
        /\ \A a, b \in 1..Len(seen.log) :
              a # b => seen.log[a].ret.val.id # seen.log[b].ret.val.id

\* a library of at least two records has been served on as many dates
C2_Witness ==
    /\ LibSize >= 2
    /\ Len(seen.log) = LibSize
    /\ Cardinality({seen.log[k].day : k \in 1..Len(seen.log)}) = LibSize

\* C3. Exhaustion reset: when the History uses all N library ids on N dates,
\* a call on a further date returns a library record and leaves a History of
\* exactly one entry, the one for that date.
C3_ExhaustionReset ==
    PreExhausted =>
        /\ call.ret \in LibRecords
        /\ histFile = JsonFile(<<Entry(today_id_of(call.day), call.ret.val.id)>>)

\* a call reset an exhausted History of at least two entries
C3_Witness ==
    /\ PreExhausted
    /\ LibSize >= 2
    /\ call.retries = 1

\* C4. Restart recovery: a call from a freshly started process on a date
\* whose History entry names a library id returns exactly that record and
\* does not write the History.
C4_RestartRecovery ==
    (call.done /\ call.fresh) =>
        \A k \in 1..Len(PreHist) :
            (PreHist[k].val.date = today_id_of(call.day) /\ PreHist[k].val.puzzle_id \in LibIds)
            => /\ call.ret \in LibRecords
               /\ call.ret.val.id = PreHist[k].val.puzzle_id
               /\ call.writes = 0
               /\ histFile = call.pre

\* a restarted process served a date recorded among other entries
C4_Witness ==
    /\ call.done
    /\ call.fresh
    /\ Len(PreHist) >= 2
    /\ \E k \in 1..Len(PreHist) :
          /\ PreHist[k].val.date = today_id_of(call.day)
          /\ PreHist[k].val.puzzle_id \in LibIds
          /\ PreHist[k].val.puzzle_id # libFile.data[1].val.id

\* C5. Empty-library failure: with a missing, malformed or empty Library the
\* call returns the LibraryUnavailable result, makes no retry and no write,
\* and the persisted History is what it was.
C5_EmptyLibraryFailure ==
    (call.done /\ ~LibOK) =>
        /\ call.ret.kind = "tuple"
        /\ call.ret.items[1].kind = "dict"
        /\ "error" \in DOMAIN call.ret.items[1].val
        /\ call.retries = 0
        /\ call.writes = 0
        /\ histFile = call.pre

\* a call failed on an unusable library over a History that has entries
C5_Witness ==
    /\ call.done
    /\ ~LibOK
    /\ Len(PreHist) >= 1

\* C6. Date uniqueness: from an empty History, the persisted History never
\* holds two entries for one date.
C6_DateUniqueness ==
    \A a, b \in 1..Len(Hist) : a # b => Hist[a].val.date # Hist[b].val.date

\* a date was requested twice in a row while the History held other dates too
C6_Witness ==
    /\ call.again
    /\ Len(Hist) >= 2

\* C7. No repeated puzzle: from an empty History, no two entries of the
\* persisted History carry the same puzzle id.
C7_NoRepeatedPuzzle ==
    \A a, b \in 1..Len(Hist) :
        a # b => Hist[a].val.puzzle_id # Hist[b].val.puzzle_id

\* after a reset the History has grown to two entries again, and holds an id
\* that an earlier, cleared entry had used
C7_Witness ==
    /\ Len(Hist) >= 2
    /\ \E k \in 1..Len(Hist), j \in 1..Len(seen.log) :
          /\ Hist[k].val.date \notin {today_id_of(seen.log[i].day) : i \in 1..Len(seen.log)}
          /\ seen.log[j].ret.kind = "dict"
          /\ Hist[k].val.puzzle_id = seen.log[j].ret.val.id

\* C8. Endpoint error surfacing: when select_daily_puzzle fails with
\* LibraryUnavailable the endpoint answers with a 5xx status, never with a
\* success response that carries the error in its body.
C8_EndpointErrorSurfacing ==
    (call.done /\ call.ret = LibraryUnavailable) => resp.status >= 500

\* C9. Explicit data-consistency fault: when today's History entry names no
\* library record, the call returns an error value that is neither None, nor
\* a puzzle, nor the LibraryUnavailable result.
C9_ExplicitFault ==
    Fault =>
        /\ call.ret # PyNone
        /\ call.ret \notin LibRecords
        /\ call.ret # LibraryUnavailable

\* C10. No healing on a data-consistency fault: when today's History entry
\* names no library record, the call returns no puzzle and does not write
\* the History.
C10_NoHealing ==
    Fault =>
        /\ call.ret.kind # "dict"
        /\ call.writes = 0
        /\ call.retries = 0
        /\ histFile = call.pre

\* a call met an entry for its date whose id the non-empty library lacks
C10_Witness ==
    /\ Fault
    /\ call.pre.st = "json"

\* C12. Recorded ids exist in the Library: with a fixed Library, every puzzle
\* id of a History that the scheduler built is the id of a library record.
C12_RecordedIdsExist ==
    \A k \in 1..Len(Hist) : Hist[k].val.puzzle_id \in LibIds

\* the scheduler has recorded several entries and library ids remain unused
C12_Witness ==
    /\ Len(Hist) >= 2
    /\ Len(Hist) < LibSize
    /\ call.writes = 1

\* C15. Append-only history: a fresh selection without reset leaves the
\* History it loaded followed by the one entry {date of the call, id of the
\* record returned}; without a reset no earlier entry is removed or changed.
C15_AppendOnly ==
    /\ (call.done /\ call.writes = 1 /\ call.retries = 0) =>
          /\ call.ret \in LibRecords
          /\ histFile = JsonFile(Append(PreHist,
                            Entry(today_id_of(call.day), call.ret.val.id)))
    /\ (call.done /\ call.retries = 0) =>
          /\ Len(PreHist) <= Len(Hist)
          /\ \A k \in 1..Len(PreHist) : Hist[k] = PreHist[k]

\* a fresh selection was appended to a History of at least two entries
C15_Witness ==
    /\ call.done
    /\ call.writes = 1
    /\ call.retries = 0
    /\ Len(PreHist) >= 2

\* C16. Bounded retry: with a non-empty Library, every call that can be made
\* from the present files has an outcome, recurses at most once, and after
\* the one reset selects from the full Library.
C16_BoundedRetry ==
    /\ call.done => call.retries <= 1
    /\ LibOK =>
          LET outs == select_daily_puzzle(libFile, histFile, today_id_of(today))
          IN /\ outs # {}
             /\ \A o \in outs : o.retries <= 1
             /\ (\E o \in outs : o.retries = 1) =>
                   {o.ret : o \in outs} = LibRecords

\* a call reset a History that was longer than the Library
C16_Witness ==
    /\ call.done
    /\ call.retries = 1
    /\ LibSize >= 2
    /\ Len(PreHist) > LibSize

\* C17. Selection is from the pool: where today has no entry and unused
\* records remain, the records a call can return are exactly the library
\* records whose id no entry of the loaded History uses.
C17_SelectionFromPool ==
    /\ LET pool == {p \in LibRecords :
                        p.val.id \notin {Hist[k].val.puzzle_id : k \in 1..Len(Hist)}}
       IN (LibOK /\ today_id_of(today) \notin DatesOf(Hist) /\ pool # {}) =>
             {o.ret : o \in select_daily_puzzle(libFile, histFile, today_id_of(today))}
                = pool
    /\ (call.done /\ call.writes = 1 /\ call.retries = 0) =>
          /\ call.ret \in LibRecords
          /\ call.ret.val.id \notin {PreHist[k].val.puzzle_id : k \in 1..Len(PreHist)}

\* a fresh selection was made from a pool of at least two records while the
\* History already used a library id
C17_Witness ==
    /\ call.done
    /\ call.writes = 1
    /\ call.retries = 0
    /\ \E k \in 1..Len(PreHist) : PreHist[k].val.puzzle_id \in LibIds
    /\ Cardinality(LibIds \ {PreHist[k].val.puzzle_id : k \in 1..Len(PreHist)}) >= 2

\* C18. Malformed history is treated as empty: with a non-empty Library a
\* call over a malformed or absent History file has the outcomes of a call
\* over the empty History: a library record, and a History of one entry.
C18_MalformedHistoryAsEmpty ==
    /\ LibOK =>
          /\ select_daily_puzzle(libFile, Malformed, today_id_of(today))
                = select_daily_puzzle(libFile, JsonFile(<<>>), today_id_of(today))
          /\ select_daily_puzzle(libFile, Missing, today_id_of(today))
                = select_daily_puzzle(libFile, JsonFile(<<>>), today_id_of(today))
    /\ (call.done /\ LibOK /\ call.pre.st \in {"malformed", "missing"}) =>
          /\ call.ret \in LibRecords
          /\ call.writes = 1
          /\ call.retries = 0
          /\ histFile = JsonFile(<<Entry(today_id_of(call.day), call.ret.val.id)>>)

\* a call was served over a malformed History file and a library of several
\* records
C18_Witness ==
    /\ call.done
    /\ call.pre = Malformed
    /\ LibSize >= 2

\* the entries of the persisted History dated today
TodayInHist == {k \in 1..Len(Hist) : Hist[k].val.date = today_id_of(today)}

\* C13. Concurrent first requests keep one entry per date: however the steps
\* of two calls for a date without entry interleave, the persisted History
\* never holds more than one entry for that date.
C13_ConcurrentOneEntry ==
    Cardinality(TodayInHist) <= 1

\* both calls loaded a History without today's entry, selected different
\* records and saved
C13_Witness ==
    /\ \A p \in Procs : procs[p].pc = "done" /\ procs[p].sel.kind = "dict"
    /\ procs["a"].sel # procs["b"].sel
    /\ Cardinality(TodayInHist) = 1

\* C14. One puzzle per day under concurrency: when two calls for a date
\* without entry have both returned, they returned the same puzzle, and it is
\* the one the persisted History records for the date.
C14_ConcurrentSamePuzzle ==
    (LibOK /\ \A p \in Procs : procs[p].pc = "done") =>
        /\ procs["a"].ret = procs["b"].ret
        /\ \E k \in TodayInHist :
              /\ procs["a"].ret.kind = "dict"
              /\ Hist[k].val.puzzle_id = procs["a"].ret.val.id

\* C11. Atomic save: while a save is between the cut of the file and the end
\* of its write, or was interrupted there, a load by a request not yet
\* started yields the complete old or the complete new sequence.
C11_AtomicSave ==
    \A p, q \in Procs :
        (/\ p # q
         /\ procs[q].pc = "idle"
         /\ procs[p].pc \in {"dump", "dead"} \/ procs[p].io = "dump")
        => Hist \in {procs[p].old, procs[p].history}

\* C19. Persistence failure is surfaced distinctly: a call whose History
\* write failed ends with an error value of its own, not with an escaped
\* exception that the endpoint answers like any other crash.
C19_PersistenceFailureSurfaced ==
    \A p \in Procs :
        procs[p].io \in {"open", "dump"} =>
            /\ procs[p].ret.kind # "raise"
            /\ procs[p].ret # LibraryUnavailable
            /\ get_daily_puzzle(procs[p].ret) # InternalServerError

====
